---- MODULE Spec2Model ----
(***************************************************************************)
(* Model of module/system_power/src/mod_system_power.c (SCP-firmware).    *)
(*                                                                         *)
(* The framework entry points of the module run to completion; each call   *)
(* they make into a driver, the interrupt controller or the power domain   *)
(* module is one step, so that the wakeup interrupt handler can run        *)
(* between any two of them.                                                *)
(***************************************************************************)
EXTENDS Naturals, Sequences, FiniteSets

\* ---------------------------------------------------------------- bounds
\* number of extended PPUs in the configuration (config->ext_ppus_count)
NumExtPpus == 2
\* number of times the wakeup interrupt handler is let run
MaxWakeups == 1

\* ------------------------------------------------------- framework values
FWK_SUCCESS == "FWK_SUCCESS"
FWK_E_SUPPORT == "FWK_E_SUPPORT"
FWK_E_ACCESS == "FWK_E_ACCESS"
FWK_E_DEVICE == "FWK_E_DEVICE"
\* the statuses a driver call may return
DriverStatus == {FWK_SUCCESS, FWK_E_DEVICE}
\* not a status: the entry point has not returned yet
PENDING == "PENDING"
\* not a value: the caller's out parameter was not written
NONE == "NONE"

MOD_PD_STATE_OFF == "MOD_PD_STATE_OFF"
MOD_PD_STATE_ON == "MOD_PD_STATE_ON"
MOD_PD_STATE_SLEEP == "MOD_PD_STATE_SLEEP"
MOD_SYSTEM_POWER_POWER_STATE_SLEEP0 == "MOD_SYSTEM_POWER_POWER_STATE_SLEEP0"
MOD_SYSTEM_POWER_SOC_WAKEUP_STATE == "COMPOSITE(LEVEL_2, 0, ON, ON, ON)"

\* the values a caller may pass as requested state
RequestedStates ==
    {MOD_PD_STATE_OFF, MOD_PD_STATE_ON, MOD_PD_STATE_SLEEP,
     MOD_SYSTEM_POWER_POWER_STATE_SLEEP0}
\* the states a PPU can be observed in
PpuStates == {MOD_PD_STATE_OFF, MOD_PD_STATE_ON}
ShutdownReasons == {"MOD_PD_SYSTEM_SHUTDOWN", "MOD_PD_SYSTEM_COLD_RESET"}

\* ------------------------------------------------------------ identifiers
FWK_ID_MODULE(m) == [type |-> "MODULE", mod |-> m, idx |-> 0]
FWK_ID_ELEMENT(m, e) == [type |-> "ELEMENT", mod |-> m, idx |-> e]
FWK_ID_API(m, a) == [type |-> "API", mod |-> m, idx |-> a]
FWK_ID_NONE == [type |-> "NONE", mod |-> "NONE", idx |-> 0]
fwk_id_build_module_id(id) == FWK_ID_MODULE(id.mod)
fwk_id_is_equal(a, b) == a = b
fwk_module_id_power_domain == FWK_ID_MODULE("POWER_DOMAIN")
fwk_module_id_system_power == FWK_ID_MODULE("SYSTEM_POWER")
mod_system_power_soc_wakeup_pd_id == FWK_ID_ELEMENT("POWER_DOMAIN", 0)
mod_system_power_api_id_pd_driver == FWK_ID_API("SYSTEM_POWER", 0)
mod_system_power_api_id_pd_driver_input == FWK_ID_API("SYSTEM_POWER", 1)

\* ---------------------------------------------------------- configuration
ext_ppus_count == NumExtPpus
ppu_sys0_id == FWK_ID_ELEMENT("PPU", 0)
ppu_sys1_id == FWK_ID_ELEMENT("PPU", 1)
\* config->ext_ppus[k].ppu_id, k counted from 0 as in the code
ext_ppus(k) == FWK_ID_ELEMENT("PPU", 2 + k)
soc_wakeup_irq == [type |-> "IRQ", mod |-> "NVIC", idx |-> 0]
ExtPpuIds == {ext_ppus(k) : k \in 0 .. (ext_ppus_count - 1)}
PpuIds == {ppu_sys0_id, ppu_sys1_id} \cup ExtPpuIds

\* identifiers a caller may pass as pd_id to the driver API
CallerIds == {fwk_module_id_system_power, FWK_ID_ELEMENT("SYSTEM_POWER", 7)}
\* identities that may send a bind request
RequesterIds ==
    {FWK_ID_ELEMENT("POWER_DOMAIN", 0), FWK_ID_ELEMENT("POWER_DOMAIN", 1),
     ppu_sys0_id, ppu_sys1_id, ext_ppus(0), FWK_ID_MODULE("CLOCK")}
RequestedApiIds ==
    {mod_system_power_api_id_pd_driver,
     mod_system_power_api_id_pd_driver_input,
     FWK_ID_API("SYSTEM_POWER", 2)}

\* fwk_module_check_call: the call is allowed for the module's own identifier
fwk_module_check_call(pd_id) ==
    IF pd_id = fwk_module_id_system_power THEN FWK_SUCCESS ELSE FWK_E_ACCESS

VARIABLES
    phase,             \* "bind", "runtime" or "halted" (start failed)
    pc,                \* position inside the running entry point, or "idle"
    entry,             \* the running / last entry point and its arguments
    i,                 \* loop index of ext_ppus_set_state
    ops,               \* calls issued by the running / last entry point
    ret,               \* its return status, PENDING while it runs
    out,               \* value written through its out parameter
    hw,                \* power state of each PPU, as its driver holds it
    irq_enabled,       \* wakeup interrupt enable bit
    irq_pending,       \* wakeup interrupt pending bit
    ctx_state,         \* system_power_ctx.state
    mod_pd_system_id,  \* system_power_ctx.mod_pd_system_id
    sys0_state,        \* local of report_power_state_transition
    sys1_state,        \* local of report_power_state_transition
    async_reqs,        \* set_composite_state_async requests issued so far
    rails_ok,          \* no rail driver refused a request so far, and the
                       \* rails did not start with SYS0 on and SYS1 off
    irq_last,          \* state requested by the sequence that last called
                       \* an fwk_interrupt_* function, NONE before the first
    preempted          \* the wakeup handler has run between two steps of
                       \* an entry point

vars == <<phase, pc, entry, i, ops, ret, out, hw, irq_enabled, irq_pending,
          ctx_state, mod_pd_system_id, sys0_state, sys1_state, async_reqs,
          rails_ok, irq_last, preempted>>

\* one call issued to a collaborator, with the status it returned
Op(op, api, id, state, res) ==
    [op |-> op, api |-> api, id |-> id, state |-> state, res |-> res]

Entry(fn, id, arg) == [fn |-> fn, id |-> id, arg |-> arg]

Init ==
    /\ phase = "bind"
    /\ pc = "idle"
    /\ entry = Entry("mod_init", fwk_module_id_system_power, NONE)
    /\ i = 0
    /\ ops = <<>>
    /\ ret = FWK_SUCCESS
    /\ out = NONE
    /\ hw \in [PpuIds -> PpuStates]
    /\ irq_enabled = FALSE
    /\ irq_pending = FALSE
    /\ ctx_state = MOD_PD_STATE_OFF
    /\ mod_pd_system_id = FWK_ID_NONE
    /\ sys0_state = NONE
    /\ sys1_state = NONE
    /\ async_reqs = <<>>
    /\ rails_ok = ~(hw[ppu_sys0_id] = MOD_PD_STATE_ON
                    /\ hw[ppu_sys1_id] = MOD_PD_STATE_OFF)
    /\ irq_last = NONE
    /\ preempted = FALSE

\* ---------------------------------------------------------------- helpers
\* the state the running / last sequence was asked for
Target == IF entry.fn = "shutdown" THEN MOD_PD_STATE_OFF ELSE entry.arg

\* a PPU driver's set_state: a refused request leaves the PPU as it was
PpuSetState(api, id, state, res) ==
    /\ hw' = IF res = FWK_SUCCESS THEN [hw EXCEPT ![id] = state] ELSE hw
    /\ ops' = Append(ops, Op("set_state", api, id, state, res))
    /\ rails_ok' = (rails_ok /\ (id \in ExtPpuIds \/ res = FWK_SUCCESS))

fwk_interrupt_disable(irq) ==
    /\ irq_last' = Target
    /\ irq_enabled' = FALSE
    /\ ops' = Append(ops, Op("fwk_interrupt_disable", "fwk", irq, NONE,
                             FWK_SUCCESS))
    /\ UNCHANGED irq_pending

fwk_interrupt_enable(irq) ==
    /\ irq_last' = Target
    /\ irq_enabled' = TRUE
    /\ ops' = Append(ops, Op("fwk_interrupt_enable", "fwk", irq, NONE,
                             FWK_SUCCESS))
    /\ UNCHANGED irq_pending

fwk_interrupt_clear_pending(irq) ==
    /\ irq_last' = Target
    /\ irq_pending' = FALSE
    /\ ops' = Append(ops, Op("fwk_interrupt_clear_pending", "fwk", irq, NONE,
                             FWK_SUCCESS))
    /\ UNCHANGED irq_enabled

\* system_power_set_state returns status; system_power_shutdown, when it is
\* the caller, goes on to the shutdown driver on success
SetStateReturn(status) ==
    IF entry.fn = "shutdown" /\ status = FWK_SUCCESS
    THEN pc' = "shutdown_driver" /\ ret' = PENDING
    ELSE pc' = "idle" /\ ret' = status

\* the call of ext_ppus_set_state: enter its loop at label, or fall through
\* to cont when no extended PPU is configured
CallExtPpus(label, cont) ==
    IF 0 < ext_ppus_count
    THEN pc' = label /\ i' = 0 /\ ret' = PENDING
    ELSE cont /\ UNCHANGED i

\* variant: the loop is left at the first unit whose driver fails
ext_ppus_set_state_stop_on_failure(state, res, cont) ==
    /\ PpuSetState("ext_ppu_apis", ext_ppus(i), state, res)
    /\ i' = i + 1
    /\ IF i + 1 < ext_ppus_count /\ res = FWK_SUCCESS
       THEN UNCHANGED <<pc, ret>>
       ELSE cont

\* one iteration of the loop of ext_ppus_set_state; cont follows the last
ext_ppus_set_state(state, res, cont) ==
    /\ PpuSetState("ext_ppu_apis", ext_ppus(i), state, res)
    /\ i' = i + 1
    /\ IF i + 1 < ext_ppus_count THEN UNCHANGED <<pc, ret>> ELSE cont

\* variant: the switch has no default case and OFF catches the rest
SetStateSwitch_no_default(state) ==
    CASE state = MOD_PD_STATE_ON ->
            pc' = "on_irq_disable" /\ ret' = PENDING /\ UNCHANGED i
      [] state = MOD_SYSTEM_POWER_POWER_STATE_SLEEP0 ->
            CallExtPpus("sleep0_ext_ppus",
                        pc' = "sleep0_clear_pending" /\ ret' = PENDING)
      [] OTHER ->
            pc' = "off_irq_disable" /\ ret' = PENDING /\ UNCHANGED i

\* the switch of system_power_set_state, entered once the call is allowed
SetStateSwitch(state) ==
    CASE state = MOD_PD_STATE_ON ->
            pc' = "on_irq_disable" /\ ret' = PENDING /\ UNCHANGED i
      [] state = MOD_SYSTEM_POWER_POWER_STATE_SLEEP0 ->
            CallExtPpus("sleep0_ext_ppus",
                        pc' = "sleep0_clear_pending" /\ ret' = PENDING)
      [] state = MOD_PD_STATE_OFF ->
            pc' = "off_irq_disable" /\ ret' = PENDING /\ UNCHANGED i
      [] OTHER ->
            pc' = "idle" /\ ret' = FWK_E_SUPPORT /\ UNCHANGED i

\* variant: set_state caches the state it was asked for
system_power_set_state_caches_target(pd_id, state) ==
    /\ phase = "runtime" /\ pc = "idle"
    /\ entry' = Entry("set_state", pd_id, state)
    /\ ops' = <<>>
    /\ out' = NONE
    /\ IF fwk_module_check_call(pd_id) # FWK_SUCCESS
       THEN pc' = "idle" /\ ret' = fwk_module_check_call(pd_id)
            /\ UNCHANGED <<i, ctx_state>>
       ELSE SetStateSwitch(state) /\ ctx_state' = state
    /\ UNCHANGED <<preempted, irq_last, phase, hw, irq_enabled, irq_pending,
                   mod_pd_system_id, sys0_state, sys1_state, async_reqs,
                   rails_ok>>

\* ------------------------------------------------- system_power_set_state
system_power_set_state(pd_id, state) ==
    /\ phase = "runtime" /\ pc = "idle"
    /\ entry' = Entry("set_state", pd_id, state)
    /\ ops' = <<>>
    /\ out' = NONE
    /\ IF fwk_module_check_call(pd_id) # FWK_SUCCESS
       THEN pc' = "idle" /\ ret' = fwk_module_check_call(pd_id)
            /\ UNCHANGED i
       ELSE SetStateSwitch(state)
    /\ UNCHANGED <<preempted, irq_last, phase, hw, irq_enabled, irq_pending,
                   ctx_state, mod_pd_system_id, sys0_state, sys1_state,
                   async_reqs, rails_ok>>

set_state_on_irq_disable ==
    /\ pc = "on_irq_disable"
    /\ fwk_interrupt_disable(soc_wakeup_irq)
    /\ pc' = "on_sys0"
    /\ UNCHANGED <<preempted, phase, entry, i, ret, out, hw, ctx_state,
                   mod_pd_system_id, sys0_state, sys1_state, async_reqs,
                   rails_ok>>

set_state_on_sys0(res) ==
    /\ pc = "on_sys0"
    /\ PpuSetState("sys0_api", ppu_sys0_id, MOD_PD_STATE_ON, res)
    /\ pc' = "on_sys1"
    /\ UNCHANGED <<preempted, irq_last, phase, entry, i, ret, out,
                   irq_enabled, irq_pending, ctx_state, mod_pd_system_id,
                   sys0_state, sys1_state, async_reqs>>

\* variant: the second rail request names SYS0 again
set_state_on_sys1_wrong_id(res) ==
    /\ pc = "on_sys1"
    /\ PpuSetState("sys0_api", ppu_sys0_id, MOD_PD_STATE_ON, res)
    /\ CallExtPpus("on_ext_ppus", SetStateReturn(FWK_SUCCESS))
    /\ UNCHANGED <<preempted, irq_last, phase, entry, out, irq_enabled,
                   irq_pending, ctx_state, mod_pd_system_id, sys0_state,
                   sys1_state, async_reqs>>

set_state_on_sys1(res) ==
    /\ pc = "on_sys1"
    /\ PpuSetState("sys0_api", ppu_sys1_id, MOD_PD_STATE_ON, res)
    /\ CallExtPpus("on_ext_ppus", SetStateReturn(FWK_SUCCESS))
    /\ UNCHANGED <<preempted, irq_last, phase, entry, out, irq_enabled,
                   irq_pending, ctx_state, mod_pd_system_id, sys0_state,
                   sys1_state, async_reqs>>

\* variant: the ON row switches the extended PPUs off, as the other rows do
set_state_on_ext_ppus_off(res) ==
    /\ pc = "on_ext_ppus"
    /\ ext_ppus_set_state(MOD_PD_STATE_OFF, res, SetStateReturn(FWK_SUCCESS))
    /\ UNCHANGED <<preempted, irq_last, phase, entry, out, irq_enabled,
                   irq_pending, ctx_state, mod_pd_system_id, sys0_state,
                   sys1_state, async_reqs>>

set_state_on_ext_ppus(res) ==
    /\ pc = "on_ext_ppus"
    /\ ext_ppus_set_state(MOD_PD_STATE_ON, res, SetStateReturn(FWK_SUCCESS))
    /\ UNCHANGED <<preempted, irq_last, phase, entry, out, irq_enabled,
                   irq_pending, ctx_state, mod_pd_system_id, sys0_state,
                   sys1_state, async_reqs>>

set_state_sleep0_ext_ppus(res) ==
    /\ pc = "sleep0_ext_ppus"
    /\ ext_ppus_set_state(MOD_PD_STATE_OFF, res,
                          pc' = "sleep0_clear_pending" /\ UNCHANGED ret)
    /\ UNCHANGED <<preempted, irq_last, phase, entry, out, irq_enabled,
                   irq_pending, ctx_state, mod_pd_system_id, sys0_state,
                   sys1_state, async_reqs>>

set_state_sleep0_clear_pending ==
    /\ pc = "sleep0_clear_pending"
    /\ fwk_interrupt_clear_pending(soc_wakeup_irq)
    /\ pc' = "sleep0_sys0"
    /\ UNCHANGED <<preempted, phase, entry, i, ret, out, hw, ctx_state,
                   mod_pd_system_id, sys0_state, sys1_state, async_reqs,
                   rails_ok>>

set_state_sleep0_sys0(res) ==
    /\ pc = "sleep0_sys0"
    /\ PpuSetState("sys0_api", ppu_sys0_id, MOD_PD_STATE_OFF, res)
    /\ pc' = "sleep0_sys1"
    /\ UNCHANGED <<preempted, irq_last, phase, entry, i, ret, out,
                   irq_enabled, irq_pending, ctx_state, mod_pd_system_id,
                   sys0_state, sys1_state, async_reqs>>

\* variant: the retention rail is switched off on the way to SLEEP0
set_state_sleep0_sys1_forced_off(res) ==
    /\ pc = "sleep0_sys1"
    /\ PpuSetState("sys0_api", ppu_sys1_id, MOD_PD_STATE_OFF, res)
    /\ pc' = "sleep0_irq_enable"
    /\ UNCHANGED <<preempted, irq_last, phase, entry, i, ret, out,
                   irq_enabled, irq_pending, ctx_state, mod_pd_system_id,
                   sys0_state, sys1_state, async_reqs>>

set_state_sleep0_sys1(res) ==
    /\ pc = "sleep0_sys1"
    /\ PpuSetState("sys0_api", ppu_sys1_id, MOD_PD_STATE_ON, res)
    /\ pc' = "sleep0_irq_enable"
    /\ UNCHANGED <<preempted, irq_last, phase, entry, i, ret, out,
                   irq_enabled, irq_pending, ctx_state, mod_pd_system_id,
                   sys0_state, sys1_state, async_reqs>>

set_state_sleep0_irq_enable ==
    /\ pc = "sleep0_irq_enable"
    /\ fwk_interrupt_enable(soc_wakeup_irq)
    /\ SetStateReturn(FWK_SUCCESS)
    /\ UNCHANGED <<preempted, phase, entry, i, out, hw, ctx_state,
                   mod_pd_system_id, sys0_state, sys1_state, async_reqs,
                   rails_ok>>

\* variant: OFF goes straight to the extended PPUs
set_state_off_irq_disable_missing ==
    /\ pc = "off_irq_disable"
    /\ CallExtPpus("off_ext_ppus", pc' = "off_sys0" /\ UNCHANGED ret)
    /\ UNCHANGED <<preempted, irq_last, irq_enabled, irq_pending, ops, phase,
                   entry, out, hw, ctx_state, mod_pd_system_id, sys0_state,
                   sys1_state, async_reqs, rails_ok>>

set_state_off_irq_disable ==
    /\ pc = "off_irq_disable"
    /\ fwk_interrupt_disable(soc_wakeup_irq)
    /\ CallExtPpus("off_ext_ppus", pc' = "off_sys0" /\ UNCHANGED ret)
    /\ UNCHANGED <<preempted, phase, entry, out, hw, ctx_state,
                   mod_pd_system_id, sys0_state, sys1_state, async_reqs,
                   rails_ok>>

set_state_off_ext_ppus(res) ==
    /\ pc = "off_ext_ppus"
    /\ ext_ppus_set_state(MOD_PD_STATE_OFF, res,
                          pc' = "off_sys0" /\ UNCHANGED ret)
    /\ UNCHANGED <<preempted, irq_last, phase, entry, out, irq_enabled,
                   irq_pending, ctx_state, mod_pd_system_id, sys0_state,
                   sys1_state, async_reqs>>

\* variant: OFF switches the retention rail off before SYS0
set_state_off_sys0_rail_b_first(res) ==
    /\ pc = "off_sys0"
    /\ PpuSetState("sys0_api", ppu_sys1_id, MOD_PD_STATE_OFF, res)
    /\ pc' = "off_sys1"
    /\ UNCHANGED <<preempted, irq_last, phase, entry, i, ret, out,
                   irq_enabled, irq_pending, ctx_state, mod_pd_system_id,
                   sys0_state, sys1_state, async_reqs>>

set_state_off_sys0(res) ==
    /\ pc = "off_sys0"
    /\ PpuSetState("sys0_api", ppu_sys0_id, MOD_PD_STATE_OFF, res)
    /\ pc' = "off_sys1"
    /\ UNCHANGED <<preempted, irq_last, phase, entry, i, ret, out,
                   irq_enabled, irq_pending, ctx_state, mod_pd_system_id,
                   sys0_state, sys1_state, async_reqs>>

\* variant: OFF leaves the retention rail on, as SLEEP0 does
set_state_off_sys1_keeps_on(res) ==
    /\ pc = "off_sys1"
    /\ PpuSetState("sys0_api", ppu_sys1_id, MOD_PD_STATE_ON, res)
    /\ SetStateReturn(FWK_SUCCESS)
    /\ UNCHANGED <<preempted, irq_last, phase, entry, i, out, irq_enabled,
                   irq_pending, ctx_state, mod_pd_system_id, sys0_state,
                   sys1_state, async_reqs>>

set_state_off_sys1(res) ==
    /\ pc = "off_sys1"
    /\ PpuSetState("sys0_api", ppu_sys1_id, MOD_PD_STATE_OFF, res)
    /\ SetStateReturn(FWK_SUCCESS)
    /\ UNCHANGED <<preempted, irq_last, phase, entry, i, out, irq_enabled,
                   irq_pending, ctx_state, mod_pd_system_id, sys0_state,
                   sys1_state, async_reqs>>

\* ------------------------------------------------- system_power_get_state
system_power_get_state(pd_id) ==
    /\ phase = "runtime" /\ pc = "idle"
    /\ entry' = Entry("get_state", pd_id, NONE)
    /\ ops' = <<>>
    /\ IF fwk_module_check_call(pd_id) # FWK_SUCCESS
       THEN ret' = fwk_module_check_call(pd_id) /\ out' = NONE
       ELSE ret' = FWK_SUCCESS /\ out' = ctx_state
    /\ UNCHANGED <<preempted, irq_last, phase, pc, i, hw, irq_enabled,
                   irq_pending, ctx_state, mod_pd_system_id, sys0_state,
                   sys1_state, async_reqs, rails_ok>>

\* ----------------------------------------------------- system_power_reset
system_power_reset(pd_id) ==
    /\ phase = "runtime" /\ pc = "idle"
    /\ entry' = Entry("reset", pd_id, NONE)
    /\ ops' = <<>>
    /\ out' = NONE
    /\ ret' = FWK_E_SUPPORT
    /\ UNCHANGED <<preempted, irq_last, phase, pc, i, hw, irq_enabled,
                   irq_pending, ctx_state, mod_pd_system_id, sys0_state,
                   sys1_state, async_reqs, rails_ok>>

\* -------------------------------------------------- system_power_shutdown
system_power_shutdown(pd_id, system_shutdown) ==
    /\ phase = "runtime" /\ pc = "idle"
    /\ entry' = Entry("shutdown", pd_id, system_shutdown)
    /\ ops' = <<>>
    /\ out' = NONE
    /\ IF fwk_module_check_call(pd_id) # FWK_SUCCESS
       THEN pc' = "idle" /\ ret' = fwk_module_check_call(pd_id)
            /\ UNCHANGED i
       ELSE SetStateSwitch(MOD_PD_STATE_OFF)
    /\ UNCHANGED <<preempted, irq_last, phase, hw, irq_enabled, irq_pending,
                   ctx_state, mod_pd_system_id, sys0_state, sys1_state,
                   async_reqs, rails_ok>>

\* variant: the shutdown driver is always given the same reason
shutdown_driver_fixed_reason(res) ==
    /\ pc = "shutdown_driver"
    /\ ops' = Append(ops, Op("system_shutdown", "driver_api", FWK_ID_NONE,
                             "MOD_PD_SYSTEM_SHUTDOWN", res))
    /\ pc' = "idle"
    /\ ret' = res
    /\ UNCHANGED <<preempted, irq_last, phase, entry, i, out, hw, irq_enabled,
                   irq_pending, ctx_state, mod_pd_system_id, sys0_state,
                   sys1_state, async_reqs, rails_ok>>

shutdown_driver(res) ==
    /\ pc = "shutdown_driver"
    /\ ops' = Append(ops, Op("system_shutdown", "driver_api", FWK_ID_NONE,
                             entry.arg, res))
    /\ pc' = "idle"
    /\ ret' = res
    /\ UNCHANGED <<preempted, irq_last, phase, entry, i, out, hw, irq_enabled,
                   irq_pending, ctx_state, mod_pd_system_id, sys0_state,
                   sys1_state, async_reqs, rails_ok>>

\* variant: the handler wakes the domain latched at bind time
soc_wakeup_handler_latched_id ==
    /\ phase = "runtime"
    /\ irq_enabled /\ irq_pending
    /\ Len(async_reqs) < MaxWakeups
    /\ async_reqs' = Append(async_reqs,
           Op("set_composite_state_async", "mod_pd_restricted_api",
              mod_pd_system_id,
              MOD_SYSTEM_POWER_SOC_WAKEUP_STATE, FWK_SUCCESS))
    /\ preempted' = (preempted \/ pc # "idle")
    /\ UNCHANGED <<irq_last, phase, pc, entry, i, ops, ret, out, hw,
                   irq_enabled, irq_pending, ctx_state, mod_pd_system_id,
                   sys0_state, sys1_state, rails_ok>>

\* ----------------------------------------------------- soc_wakeup_handler
\* variant: the handler acknowledges the interrupt itself
soc_wakeup_handler_clears_pending ==
    /\ phase = "runtime"
    /\ irq_enabled /\ irq_pending
    /\ Len(async_reqs) < MaxWakeups
    /\ async_reqs' = Append(async_reqs,
           Op("set_composite_state_async", "mod_pd_restricted_api",
              mod_system_power_soc_wakeup_pd_id,
              MOD_SYSTEM_POWER_SOC_WAKEUP_STATE, FWK_SUCCESS))
    /\ irq_pending' = FALSE
    /\ preempted' = (preempted \/ pc # "idle")
    /\ UNCHANGED <<irq_last, phase, pc, entry, i, ops, ret, out, hw,
                   irq_enabled, ctx_state, mod_pd_system_id, sys0_state,
                   sys1_state, rails_ok>>

soc_wakeup_handler ==
    /\ phase = "runtime"
    /\ irq_enabled /\ irq_pending
    /\ Len(async_reqs) < MaxWakeups
    /\ async_reqs' = Append(async_reqs,
           Op("set_composite_state_async", "mod_pd_restricted_api",
              mod_system_power_soc_wakeup_pd_id,
              MOD_SYSTEM_POWER_SOC_WAKEUP_STATE, FWK_SUCCESS))
    /\ preempted' = (preempted \/ pc # "idle")
    /\ UNCHANGED <<irq_last, phase, pc, entry, i, ops, ret, out, hw,
                   irq_enabled, irq_pending, ctx_state, mod_pd_system_id,
                   sys0_state, sys1_state, rails_ok>>

\* the wakeup line is raised by the hardware
soc_wakeup_irq_raised ==
    /\ phase = "runtime"
    /\ ~irq_pending
    /\ irq_pending' = TRUE
    /\ UNCHANGED <<preempted, irq_last, phase, pc, entry, i, ops, ret, out,
                   hw, irq_enabled, ctx_state, mod_pd_system_id, sys0_state,
                   sys1_state, async_reqs, rails_ok>>

\* ----------------------------- system_power_report_power_state_transition
\* a PPU driver's get_state: a failed call leaves the caller's variable
\* unwritten, and the caller then reads whatever it held
PpuGetState(id, res) ==
    IF res = FWK_SUCCESS THEN {hw[id]}
    ELSE PpuStates \cup {MOD_PD_STATE_SLEEP}

system_power_report_power_state_transition(module_id, state) ==
    /\ phase = "runtime" /\ pc = "idle"
    /\ entry' = Entry("report_power_state_transition", module_id, state)
    /\ ops' = <<>>
    /\ out' = NONE
    /\ ret' = PENDING
    /\ pc' = "report_sys0"
    /\ sys0_state' = NONE
    /\ sys1_state' = NONE
    /\ UNCHANGED <<preempted, irq_last, phase, i, hw, irq_enabled,
                   irq_pending, ctx_state, mod_pd_system_id, async_reqs,
                   rails_ok>>

report_sys0(res) ==
    /\ pc = "report_sys0"
    /\ sys0_state' \in PpuGetState(ppu_sys0_id, res)
    /\ ops' = Append(ops, Op("get_state", "sys0_api", ppu_sys0_id, NONE, res))
    /\ pc' = "report_sys1"
    /\ UNCHANGED <<preempted, irq_last, phase, entry, i, ret, out, hw,
                   irq_enabled, irq_pending, ctx_state, mod_pd_system_id,
                   sys1_state, async_reqs, rails_ok>>

report_sys1(res) ==
    /\ pc = "report_sys1"
    /\ sys1_state' \in PpuGetState(ppu_sys1_id, res)
    /\ ops' = Append(ops, Op("get_state", "sys1_api", ppu_sys1_id, NONE, res))
    /\ pc' = "report_derive"
    /\ UNCHANGED <<preempted, irq_last, phase, entry, i, ret, out, hw,
                   irq_enabled, irq_pending, ctx_state, mod_pd_system_id,
                   sys0_state, async_reqs, rails_ok>>

\* variant: the second branch tests SYS1 for off
DeriveState_sys1_off(s0, s1) ==
    IF s0 = MOD_PD_STATE_ON /\ s1 = MOD_PD_STATE_ON
    THEN MOD_PD_STATE_ON
    ELSE IF s0 = MOD_PD_STATE_OFF /\ s1 = MOD_PD_STATE_OFF
         THEN MOD_SYSTEM_POWER_POWER_STATE_SLEEP0
         ELSE MOD_PD_STATE_OFF

\* the if / else if / else chain over the two states read
DeriveState(s0, s1) ==
    IF s0 = MOD_PD_STATE_ON /\ s1 = MOD_PD_STATE_ON
    THEN MOD_PD_STATE_ON
    ELSE IF s0 = MOD_PD_STATE_OFF /\ s1 = MOD_PD_STATE_ON
         THEN MOD_SYSTEM_POWER_POWER_STATE_SLEEP0
         ELSE MOD_PD_STATE_OFF

report_derive ==
    /\ pc = "report_derive"
    /\ ctx_state' = DeriveState(sys0_state, sys1_state)
    /\ pc' = "report_forward"
    /\ UNCHANGED <<preempted, irq_last, phase, entry, i, ops, ret, out, hw,
                   irq_enabled, irq_pending, mod_pd_system_id, sys0_state,
                   sys1_state, async_reqs, rails_ok>>

report_forward ==
    /\ pc = "report_forward"
    /\ ops' = Append(ops, Op("report_power_state_transition",
                             "mod_pd_driver_input_api", mod_pd_system_id,
                             ctx_state, FWK_SUCCESS))
    /\ pc' = "idle"
    /\ ret' = FWK_SUCCESS
    /\ sys0_state' = NONE
    /\ sys1_state' = NONE
    /\ UNCHANGED <<preempted, irq_last, phase, entry, i, out, hw, irq_enabled,
                   irq_pending, ctx_state, mod_pd_system_id, async_reqs,
                   rails_ok>>

\* variant: the requester is latched before its module is checked
system_power_process_bind_request_latch_first(requester_id, api_id) ==
    /\ phase = "bind" /\ pc = "idle"
    /\ entry' = Entry("process_bind_request", requester_id, api_id)
    /\ ops' = <<>>
    /\ IF fwk_id_is_equal(api_id, mod_system_power_api_id_pd_driver)
       THEN IF ~fwk_id_is_equal(fwk_id_build_module_id(requester_id),
                                fwk_module_id_power_domain)
            THEN /\ ret' = FWK_E_ACCESS
                 /\ out' = NONE
                 /\ mod_pd_system_id' = requester_id
            ELSE /\ out' = "system_power_power_domain_driver_api"
                 /\ mod_pd_system_id' = requester_id
                 /\ ret' = FWK_SUCCESS
       ELSE IF /\ ~fwk_id_is_equal(requester_id, ppu_sys0_id)
               /\ ~fwk_id_is_equal(requester_id, ppu_sys1_id)
            THEN /\ ret' = FWK_E_ACCESS
                 /\ out' = NONE
                 /\ UNCHANGED mod_pd_system_id
            ELSE /\ out' = "system_power_power_domain_driver_input_api"
                 /\ ret' = FWK_SUCCESS
                 /\ UNCHANGED mod_pd_system_id
    /\ UNCHANGED <<preempted, irq_last, phase, pc, i, hw, irq_enabled,
                   irq_pending, ctx_state, sys0_state, sys1_state, async_reqs,
                   rails_ok>>

\* variant: the driver input API is granted to any element of the rails'
\* module
system_power_process_bind_request_any_ppu(requester_id, api_id) ==
    /\ phase = "bind" /\ pc = "idle"
    /\ entry' = Entry("process_bind_request", requester_id, api_id)
    /\ ops' = <<>>
    /\ IF fwk_id_is_equal(api_id, mod_system_power_api_id_pd_driver)
       THEN IF ~fwk_id_is_equal(fwk_id_build_module_id(requester_id),
                                fwk_module_id_power_domain)
            THEN /\ ret' = FWK_E_ACCESS
                 /\ out' = NONE
                 /\ UNCHANGED mod_pd_system_id
            ELSE /\ out' = "system_power_power_domain_driver_api"
                 /\ mod_pd_system_id' = requester_id
                 /\ ret' = FWK_SUCCESS
       ELSE IF ~fwk_id_is_equal(fwk_id_build_module_id(requester_id),
                                fwk_id_build_module_id(ppu_sys0_id))
            THEN /\ ret' = FWK_E_ACCESS
                 /\ out' = NONE
                 /\ UNCHANGED mod_pd_system_id
            ELSE /\ out' = "system_power_power_domain_driver_input_api"
                 /\ ret' = FWK_SUCCESS
                 /\ UNCHANGED mod_pd_system_id
    /\ UNCHANGED <<preempted, irq_last, phase, pc, i, hw, irq_enabled,
                   irq_pending, ctx_state, sys0_state, sys1_state, async_reqs,
                   rails_ok>>

\* -------------------------------------- system_power_process_bind_request
system_power_process_bind_request(requester_id, api_id) ==
    /\ phase = "bind" /\ pc = "idle"
    /\ entry' = Entry("process_bind_request", requester_id, api_id)
    /\ ops' = <<>>
    /\ IF fwk_id_is_equal(api_id, mod_system_power_api_id_pd_driver)
       THEN IF ~fwk_id_is_equal(fwk_id_build_module_id(requester_id),
                                fwk_module_id_power_domain)
            THEN /\ ret' = FWK_E_ACCESS
                 /\ out' = NONE
                 /\ UNCHANGED mod_pd_system_id
            ELSE /\ out' = "system_power_power_domain_driver_api"
                 /\ mod_pd_system_id' = requester_id
                 /\ ret' = FWK_SUCCESS
       ELSE IF /\ ~fwk_id_is_equal(requester_id, ppu_sys0_id)
               /\ ~fwk_id_is_equal(requester_id, ppu_sys1_id)
            THEN /\ ret' = FWK_E_ACCESS
                 /\ out' = NONE
                 /\ UNCHANGED mod_pd_system_id
            ELSE /\ out' = "system_power_power_domain_driver_input_api"
                 /\ ret' = FWK_SUCCESS
                 /\ UNCHANGED mod_pd_system_id
    /\ UNCHANGED <<preempted, irq_last, phase, pc, i, hw, irq_enabled,
                   irq_pending, ctx_state, sys0_state, sys1_state, async_reqs,
                   rails_ok>>

\* variant: SYS0 is read and decides even when SYS1 is off
system_power_start_no_early_return(res1, res0) ==
    /\ phase = "bind" /\ pc = "idle"
    /\ entry' = Entry("start", fwk_module_id_system_power, NONE)
    /\ out' = NONE
    /\ IF res1 # FWK_SUCCESS
       THEN /\ ops' = <<Op("get_state", "sys1_api", ppu_sys1_id, NONE, res1)>>
            /\ ret' = res1
            /\ UNCHANGED ctx_state
       ELSE IF res0 # FWK_SUCCESS
       THEN /\ ops' = <<Op("get_state", "sys1_api", ppu_sys1_id, NONE, res1),
                        Op("get_state", "sys0_api", ppu_sys0_id, NONE, res0)>>
            /\ ret' = res0
            /\ UNCHANGED ctx_state
       ELSE /\ ops' = <<Op("get_state", "sys1_api", ppu_sys1_id, NONE, res1),
                        Op("get_state", "sys0_api", ppu_sys0_id, NONE, res0)>>
            /\ ctx_state' = IF hw[ppu_sys0_id] = MOD_PD_STATE_ON
                            THEN MOD_PD_STATE_ON
                            ELSE MOD_SYSTEM_POWER_POWER_STATE_SLEEP0
            /\ ret' = FWK_SUCCESS
    /\ phase' = IF ret' = FWK_SUCCESS THEN "runtime" ELSE "halted"
    /\ UNCHANGED <<preempted, irq_last, pc, i, hw, irq_enabled, irq_pending,
                   mod_pd_system_id, sys0_state, sys1_state, async_reqs,
                   rails_ok>>

\* ----------------------------------------------------- system_power_start
system_power_start(res1, res0) ==
    /\ phase = "bind" /\ pc = "idle"
    /\ entry' = Entry("start", fwk_module_id_system_power, NONE)
    /\ out' = NONE
    /\ IF res1 # FWK_SUCCESS
       THEN /\ ops' = <<Op("get_state", "sys1_api", ppu_sys1_id, NONE, res1)>>
            /\ ret' = res1
            /\ UNCHANGED ctx_state
       ELSE IF hw[ppu_sys1_id] = MOD_PD_STATE_OFF
       THEN /\ ops' = <<Op("get_state", "sys1_api", ppu_sys1_id, NONE, res1)>>
            /\ ctx_state' = MOD_PD_STATE_OFF
            /\ ret' = FWK_SUCCESS
       ELSE IF res0 # FWK_SUCCESS
       THEN /\ ops' = <<Op("get_state", "sys1_api", ppu_sys1_id, NONE, res1),
                        Op("get_state", "sys0_api", ppu_sys0_id, NONE, res0)>>
            /\ ret' = res0
            /\ UNCHANGED ctx_state
       ELSE /\ ops' = <<Op("get_state", "sys1_api", ppu_sys1_id, NONE, res1),
                        Op("get_state", "sys0_api", ppu_sys0_id, NONE, res0)>>
            /\ ctx_state' = IF hw[ppu_sys0_id] = MOD_PD_STATE_ON
                            THEN MOD_PD_STATE_ON
                            ELSE MOD_SYSTEM_POWER_POWER_STATE_SLEEP0
            /\ ret' = FWK_SUCCESS
    /\ phase' = IF ret' = FWK_SUCCESS THEN "runtime" ELSE "halted"
    /\ UNCHANGED <<preempted, irq_last, pc, i, hw, irq_enabled, irq_pending,
                   mod_pd_system_id, sys0_state, sys1_state, async_reqs,
                   rails_ok>>

\* ---------------------------------------------------------- specification
Next ==
    \/ \E pd_id \in CallerIds, state \in RequestedStates :
           system_power_set_state(pd_id, state)
    \/ set_state_on_irq_disable
    \/ \E res \in DriverStatus : set_state_on_sys0(res)
    \/ \E res \in DriverStatus : set_state_on_sys1(res)
    \/ \E res \in DriverStatus : set_state_on_ext_ppus(res)
    \/ \E res \in DriverStatus : set_state_sleep0_ext_ppus(res)
    \/ set_state_sleep0_clear_pending
    \/ \E res \in DriverStatus : set_state_sleep0_sys0(res)
    \/ \E res \in DriverStatus : set_state_sleep0_sys1(res)
    \/ set_state_sleep0_irq_enable
    \/ set_state_off_irq_disable
    \/ \E res \in DriverStatus : set_state_off_ext_ppus(res)
    \/ \E res \in DriverStatus : set_state_off_sys0(res)
    \/ \E res \in DriverStatus : set_state_off_sys1(res)
    \/ \E pd_id \in CallerIds : system_power_get_state(pd_id)
    \/ \E pd_id \in CallerIds : system_power_reset(pd_id)
    \/ \E pd_id \in CallerIds, reason \in ShutdownReasons :
           system_power_shutdown(pd_id, reason)
    \/ \E res \in DriverStatus : shutdown_driver(res)
    \/ soc_wakeup_handler
    \/ soc_wakeup_irq_raised
    \/ \E module_id \in {ppu_sys0_id, ppu_sys1_id, ext_ppus(0)},
          state \in PpuStates :
           system_power_report_power_state_transition(module_id, state)
    \/ \E res \in DriverStatus : report_sys0(res)
    \/ \E res \in DriverStatus : report_sys1(res)
    \/ report_derive
    \/ report_forward
    \/ \E requester_id \in RequesterIds, api_id \in RequestedApiIds :
           system_power_process_bind_request(requester_id, api_id)
    \/ \E res1 \in DriverStatus, res0 \in DriverStatus :
           system_power_start(res1, res0)

Spec == Init /\ [][Next]_vars

TypeOK ==
    /\ phase \in {"bind", "runtime", "halted"}
    /\ ret \in {PENDING, FWK_SUCCESS, FWK_E_SUPPORT, FWK_E_ACCESS,
                FWK_E_DEVICE}
    /\ hw \in [PpuIds -> PpuStates]
    /\ i \in 0 .. ext_ppus_count
    /\ Len(async_reqs) <= MaxWakeups
    /\ (pc = "idle") = (ret # PENDING)

\* ------------------------------------------------------------- properties
\* what a logged call asks for: the operation, its target and the state
Request(o) == <<o.op, o.id, o.state>>
Requests(log) == [k \in 1 .. Len(log) |-> Request(log[k])]
IsPrefix(s, t) == Len(s) <= Len(t) /\ \A k \in 1 .. Len(s) : s[k] = t[k]

Authorized == fwk_module_check_call(entry.id) = FWK_SUCCESS
Done == ret # PENDING

ExtPpusAll(state) ==
    [k \in 1 .. ext_ppus_count |-> <<"set_state", ext_ppus(k - 1), state>>]
IrqDisable == <<"fwk_interrupt_disable", soc_wakeup_irq, NONE>>
IrqEnable == <<"fwk_interrupt_enable", soc_wakeup_irq, NONE>>
IrqClearPending == <<"fwk_interrupt_clear_pending", soc_wakeup_irq, NONE>>
RailA(state) == <<"set_state", ppu_sys0_id, state>>
RailB(state) == <<"set_state", ppu_sys1_id, state>>

\* the three rows of the transition table
OnSequence ==
    <<IrqDisable, RailA(MOD_PD_STATE_ON), RailB(MOD_PD_STATE_ON)>>
        \o ExtPpusAll(MOD_PD_STATE_ON)
Sleep0Sequence ==
    ExtPpusAll(MOD_PD_STATE_OFF)
        \o <<IrqClearPending, RailA(MOD_PD_STATE_OFF),
             RailB(MOD_PD_STATE_ON), IrqEnable>>
OffSequence ==
    <<IrqDisable>> \o ExtPpusAll(MOD_PD_STATE_OFF)
        \o <<RailA(MOD_PD_STATE_OFF), RailB(MOD_PD_STATE_OFF)>>

\* how many times request r appears in log
CountOf(log, r) == Cardinality({k \in 1 .. Len(log) : Request(log[k]) = r})

\* C1: an authorized set_state(SLEEP0) issues, once each and in this order:
\* every extended PPU off, clear pending, SYS0 off, SYS1 ON, enable; what has
\* been issued so far is always a prefix of that list, SYS1 is never
\* requested off, and the enable comes after the clear and both rail
\* requests.
C1_Sleep0Order ==
    (entry.fn = "set_state" /\ Authorized
        /\ entry.arg = MOD_SYSTEM_POWER_POWER_STATE_SLEEP0) =>
        /\ IsPrefix(Requests(ops), Sleep0Sequence)
        /\ (Done => Requests(ops) = Sleep0Sequence)
        /\ CountOf(ops, RailB(MOD_PD_STATE_OFF)) = 0
        /\ (CountOf(ops, IrqEnable) > 0 =>
               /\ CountOf(ops, IrqClearPending) = 1
               /\ CountOf(ops, RailA(MOD_PD_STATE_OFF)) = 1
               /\ CountOf(ops, RailB(MOD_PD_STATE_ON)) = 1)

C1_Witness ==
    /\ entry.fn = "set_state" /\ Authorized
    /\ entry.arg = MOD_SYSTEM_POWER_POWER_STATE_SLEEP0
    /\ ret = FWK_SUCCESS
    /\ Len(ops) = ext_ppus_count + 4
    /\ irq_enabled

\* C2: an authorized set_state(ON) issues, once each and in this order:
\* disable the wakeup interrupt, SYS0 on, SYS1 on, every extended PPU on; no
\* extended PPU is requested on before both rail requests.
C2_OnOrder ==
    (entry.fn = "set_state" /\ Authorized /\ entry.arg = MOD_PD_STATE_ON) =>
        /\ IsPrefix(Requests(ops), OnSequence)
        /\ (Done => Requests(ops) = OnSequence)
        /\ \A k \in 1 .. Len(ops) :
               (ops[k].id \in ExtPpuIds) =>
                   \E a, b \in 1 .. (k - 1) :
                       /\ Request(ops[a]) = RailA(MOD_PD_STATE_ON)
                       /\ Request(ops[b]) = RailB(MOD_PD_STATE_ON)

C2_Witness ==
    /\ entry.fn = "set_state" /\ Authorized
    /\ entry.arg = MOD_PD_STATE_ON
    /\ ret = FWK_SUCCESS
    /\ Len(ops) = ext_ppus_count + 3
    /\ \A id \in PpuIds : hw[id] = MOD_PD_STATE_ON

\* C3: an authorized set_state(OFF) issues, once each and in this order:
\* disable the wakeup interrupt, every extended PPU off, SYS0 off, SYS1 off;
\* SYS1 is not requested off before the extended PPUs and SYS0 were.
C3_OffOrder ==
    (entry.fn = "set_state" /\ Authorized /\ entry.arg = MOD_PD_STATE_OFF) =>
        /\ IsPrefix(Requests(ops), OffSequence)
        /\ (Done => Requests(ops) = OffSequence)
        /\ \A k \in 1 .. Len(ops) :
               Request(ops[k]) = RailB(MOD_PD_STATE_OFF) =>
                   /\ \E a \in 1 .. (k - 1) :
                          Request(ops[a]) = RailA(MOD_PD_STATE_OFF)
                   /\ \A id \in ExtPpuIds : \E e \in 1 .. (k - 1) :
                          Request(ops[e]) = <<"set_state", id,
                                              MOD_PD_STATE_OFF>>

C3_Witness ==
    /\ entry.fn = "set_state" /\ Authorized
    /\ entry.arg = MOD_PD_STATE_OFF
    /\ ret = FWK_SUCCESS
    /\ Len(ops) = ext_ppus_count + 3
    /\ \A id \in PpuIds : hw[id] = MOD_PD_STATE_OFF

IsRail(o) == o.op = "set_state" /\ o.id \in {ppu_sys0_id, ppu_sys1_id}
SystemShutdown(reason) == <<"system_shutdown", FWK_ID_NONE, reason>>

\* C4 (as claimed): when a rail driver's set_state returns a failure during
\* an authorized set_state, that call is the last one of the sequence and
\* set_state returns the failure.
C4_RailFailureAborts ==
    (entry.fn = "set_state" /\ Authorized) =>
        \A k \in 1 .. Len(ops) :
            (IsRail(ops[k]) /\ ops[k].res # FWK_SUCCESS) =>
                /\ Len(ops) = k
                /\ (Done => ret = ops[k].res)

\* C5 (as claimed): when a rail call of the OFF sequence driven by shutdown
\* returns a failure, system_shutdown is not called and shutdown returns the
\* failure.
C5_ShutdownFailureSurfaced ==
    (entry.fn = "shutdown" /\ Authorized) =>
        \A k \in 1 .. Len(ops) :
            (IsRail(ops[k]) /\ ops[k].res # FWK_SUCCESS) =>
                /\ \A j \in 1 .. Len(ops) : ops[j].op # "system_shutdown"
                /\ (Done => ret = ops[k].res)

\* every PPU driver call logged so far succeeded
PpuCallsSucceeded ==
    \A k \in 1 .. Len(ops) :
        ops[k].op = "set_state" => ops[k].res = FWK_SUCCESS

\* C6: an authorized shutdown(reason) whose PPU driver calls all succeed
\* issues the whole OFF sequence and then, once, system_shutdown(reason),
\* and returns the status of that call.
C6_ShutdownOrder ==
    (entry.fn = "shutdown" /\ Authorized /\ PpuCallsSucceeded) =>
        /\ IsPrefix(Requests(ops),
                    Append(OffSequence, SystemShutdown(entry.arg)))
        /\ (pc = "shutdown_driver" => Requests(ops) = OffSequence)
        /\ (Done =>
               /\ Requests(ops)
                      = Append(OffSequence, SystemShutdown(entry.arg))
               /\ ret = ops[Len(ops)].res)

C6_Witness ==
    /\ entry.fn = "shutdown" /\ Authorized /\ PpuCallsSucceeded
    /\ entry.arg = "MOD_PD_SYSTEM_COLD_RESET"
    /\ ret = FWK_SUCCESS
    /\ Len(ops) = ext_ppus_count + 4
    /\ ops[Len(ops)].op = "system_shutdown"

RailAOnRailBOff ==
    hw[ppu_sys0_id] = MOD_PD_STATE_ON /\ hw[ppu_sys1_id] = MOD_PD_STATE_OFF

\* C7 (as claimed): with rails that start out of that configuration and
\* drivers that apply every request, SYS0 is never on while SYS1 is off,
\* between two steps of a sequence included.
C7_NeverRailAOnRailBOff == rails_ok => ~RailAOnRailBOff

\* C7 (amended): under the same assumptions SYS0 is on while SYS1 is off
\* only inside an ON sequence, after its SYS0-on request and before its
\* SYS1-on request; in every other state, and whenever no sequence is
\* running, it is not.
C7_RailAOnRailBOffOnlyInsideOn ==
    (rails_ok /\ RailAOnRailBOff) =>
        /\ pc = "on_sys1"
        /\ entry.fn = "set_state" /\ entry.arg = MOD_PD_STATE_ON
        /\ Requests(ops) = <<IrqDisable, RailA(MOD_PD_STATE_ON)>>

\* inside an ON sequence started with both rails off
C7_Witness ==
    /\ rails_ok /\ RailAOnRailBOff
    /\ pc = "on_sys1"
    /\ Authorized

InSequence == entry.fn \in {"set_state", "shutdown"} /\ Authorized

C8_State ==
    /\ (irq_enabled => irq_last = MOD_SYSTEM_POWER_POWER_STATE_SLEEP0)
    /\ (InSequence /\ Target \in {MOD_PD_STATE_ON, MOD_PD_STATE_OFF}
            /\ (Done \/ Len(ops) >= 1)) =>
           /\ Len(ops) >= 1
           /\ Request(ops[1]) = IrqDisable
           /\ ~irq_enabled
           /\ irq_last = Target
           /\ CountOf(ops, IrqEnable) = 0
    /\ (InSequence /\ Target = MOD_PD_STATE_ON) =>
           CountOf(ops, IrqClearPending) = 0

C8_Step ==
    (~irq_enabled /\ irq_enabled') =>
        /\ pc = "sleep0_irq_enable"
        /\ Target = MOD_SYSTEM_POWER_POWER_STATE_SLEEP0
        /\ Request(ops'[Len(ops')]) = IrqEnable
        /\ Requests(ops') = Sleep0Sequence

\* C8: starting with the wakeup interrupt disabled, it is enabled only when
\* the sequence that last touched it was SLEEP0, and it becomes enabled only
\* at the final step of a SLEEP0 sequence; ON and OFF sequences disable it
\* as their first step and never enable it, and ON never clears pending.
C8_WakeupIrqArmedOnlyBySleep0 == []C8_State /\ [][C8_Step]_vars

\* SLEEP0 armed the interrupt and a later OFF disarmed it
C8_Witness ==
    /\ entry.fn = "set_state" /\ Authorized /\ Done
    /\ entry.arg = MOD_PD_STATE_OFF
    /\ ~irq_enabled
    /\ irq_pending
    /\ Len(async_reqs) > 0

\* the composite state of two rail states, as the table gives it
CompositeOf(a, b) ==
    CHOOSE c \in {MOD_PD_STATE_ON, MOD_SYSTEM_POWER_POWER_STATE_SLEEP0,
                  MOD_PD_STATE_OFF} :
        /\ (c = MOD_PD_STATE_ON) <=>
               (a = MOD_PD_STATE_ON /\ b = MOD_PD_STATE_ON)
        /\ (c = MOD_SYSTEM_POWER_POWER_STATE_SLEEP0) <=>
               (a = MOD_PD_STATE_OFF /\ b = MOD_PD_STATE_ON)

ReadsBothRails ==
    /\ Len(ops) >= 2
    /\ Request(ops[1]) = <<"get_state", ppu_sys0_id, NONE>>
    /\ Request(ops[2]) = <<"get_state", ppu_sys1_id, NONE>>

\* C9: every report_power_state_transition call, whoever reports and
\* whatever state is reported, reads SYS0 and SYS1, caches ON iff both are
\* on, SLEEP0 iff SYS0 is off and SYS1 on, OFF otherwise, and forwards the
\* cached value once with the latched mod_pd_system_id.
C9_ReportDerivation ==
    (entry.fn = "report_power_state_transition") =>
        /\ (pc = "report_forward" =>
               /\ Len(ops) = 2 /\ ReadsBothRails
               /\ (ops[1].res = FWK_SUCCESS => sys0_state = hw[ppu_sys0_id])
               /\ (ops[2].res = FWK_SUCCESS => sys1_state = hw[ppu_sys1_id])
               /\ (sys0_state \in PpuStates /\ sys1_state \in PpuStates =>
                      ctx_state = CompositeOf(sys0_state, sys1_state)))
        /\ (Done =>
               /\ Len(ops) = 3 /\ ReadsBothRails
               /\ Request(ops[3]) = <<"report_power_state_transition",
                                      mod_pd_system_id, ctx_state>>
               /\ (ops[1].res = FWK_SUCCESS /\ ops[2].res = FWK_SUCCESS =>
                      ctx_state = CompositeOf(hw[ppu_sys0_id],
                                              hw[ppu_sys1_id])))

\* a report made with SYS0 on and SYS1 off
C9_Witness ==
    /\ entry.fn = "report_power_state_transition" /\ Done
    /\ entry.id = ext_ppus(0)
    /\ ops[1].res = FWK_SUCCESS /\ ops[2].res = FWK_SUCCESS
    /\ RailAOnRailBOff
    /\ ctx_state = MOD_PD_STATE_OFF
    /\ mod_pd_system_id = FWK_ID_ELEMENT("POWER_DOMAIN", 1)

C10_State ==
    (entry.fn = "get_state" /\ Authorized) =>
        /\ ret = FWK_SUCCESS
        /\ out = ctx_state
        /\ ops = <<>>

C10_Step ==
    (ctx_state' # ctx_state) =>
        \/ pc = "report_derive"
        \/ (phase = "bind" /\ entry'.fn = "start")

\* C10: system_power_ctx.state is written only by the transition reporter
\* and by start; an authorized get_state returns success with that cached
\* value, whatever set_state was asked for, and issues no call.
C10_CachedStateWriters == []C10_State /\ [][C10_Step]_vars

\* get_state answers OFF after a set_state(ON) that switched both rails on
C10_Witness ==
    /\ entry.fn = "get_state" /\ Authorized
    /\ ret = FWK_SUCCESS
    /\ out = MOD_PD_STATE_OFF
    /\ rails_ok
    /\ \A id \in PpuIds : hw[id] = MOD_PD_STATE_ON
    /\ irq_last = MOD_PD_STATE_ON

BindRequestStep == phase = "bind" /\ entry'.fn = "process_bind_request"

\* C11 (as claimed): once a requester was accepted and latched in
\* mod_pd_system_id, a driver-API bind request from another identity is
\* rejected and mod_pd_system_id is never written again.
C11_LatchedOnce ==
    [][(BindRequestStep /\ mod_pd_system_id # FWK_ID_NONE) =>
          /\ mod_pd_system_id' = mod_pd_system_id
          /\ (entry'.arg = mod_system_power_api_id_pd_driver
                  /\ entry'.id # mod_pd_system_id =>
                 ret' = FWK_E_ACCESS /\ out' = NONE)]_vars

\* the handler ran in this step
WakeupHandlerStep == async_reqs' # async_reqs

C13_UnknownApiRefused ==
    (entry.fn = "process_bind_request"
        /\ entry.arg \notin {mod_system_power_api_id_pd_driver,
                             mod_system_power_api_id_pd_driver_input}) =>
        out = NONE

\* everything of the module and the hardware but the call record itself
ModuleState ==
    <<phase, pc, i, hw, irq_enabled, irq_pending, ctx_state,
      mod_pd_system_id, sys0_state, sys1_state, async_reqs>>

DeniedDriverRequest(e) ==
    /\ e.fn = "process_bind_request"
    /\ e.arg = mod_system_power_api_id_pd_driver
    /\ e.id.mod # "POWER_DOMAIN"

C14_State == DeniedDriverRequest(entry) => ret = FWK_E_ACCESS /\ out = NONE

C14_Step ==
    (BindRequestStep /\ DeniedDriverRequest(entry')) =>
        mod_pd_system_id' = mod_pd_system_id

\* C14: a driver-API bind request from an identity outside the power domain
\* module returns FWK_E_ACCESS, hands back no API and leaves
\* mod_pd_system_id as it was (FWK_ID_NONE when nothing was latched).
C14_DriverApiDenied == []C14_State /\ [][C14_Step]_vars

C14_Witness ==
    /\ DeniedDriverRequest(entry)
    /\ entry.id = ppu_sys0_id
    /\ ret = FWK_E_ACCESS
    /\ mod_pd_system_id = FWK_ID_NONE

InputRequest(e) ==
    /\ e.fn = "process_bind_request"
    /\ e.arg = mod_system_power_api_id_pd_driver_input

C15_State ==
    InputRequest(entry) =>
        IF entry.id \in {ppu_sys0_id, ppu_sys1_id}
        THEN /\ ret = FWK_SUCCESS
             /\ out = "system_power_power_domain_driver_input_api"
        ELSE /\ ret = FWK_E_ACCESS
             /\ out = NONE

C15_Step ==
    (BindRequestStep /\ InputRequest(entry')) => UNCHANGED ModuleState

\* C15: a driver-input-API bind request is granted exactly when the
\* requester is config->ppu_sys0_id or config->ppu_sys1_id; any other
\* requester gets FWK_E_ACCESS and no API; the module state is not changed.
C15_InputApiOnlyForRails == []C15_State /\ [][C15_Step]_vars

\* an element of the rails' module that is not one of the two rails
C15_Witness ==
    /\ InputRequest(entry)
    /\ entry.id = ext_ppus(0)
    /\ ret = FWK_E_ACCESS
    /\ out = NONE
    /\ mod_pd_system_id = FWK_ID_ELEMENT("POWER_DOMAIN", 0)

\* C16: start reads SYS1 first; when SYS1 is off the cached state is OFF and
\* SYS0 is not read; otherwise SYS0 is read and the cached state is ON when
\* SYS0 is on and SLEEP0 when it is off.
C16_StartupProbe ==
    (entry.fn = "start") =>
        /\ Len(ops) >= 1
        /\ Request(ops[1]) = <<"get_state", ppu_sys1_id, NONE>>
        /\ (ops[1].res = FWK_SUCCESS =>
               IF hw[ppu_sys1_id] = MOD_PD_STATE_OFF
               THEN /\ Len(ops) = 1
                    /\ ctx_state = MOD_PD_STATE_OFF
                    /\ ret = FWK_SUCCESS
               ELSE /\ Len(ops) = 2
                    /\ Request(ops[2]) = <<"get_state", ppu_sys0_id, NONE>>
                    /\ (ops[2].res = FWK_SUCCESS =>
                           /\ ret = FWK_SUCCESS
                           /\ (hw[ppu_sys0_id] = MOD_PD_STATE_ON =>
                                  ctx_state = MOD_PD_STATE_ON)
                           /\ (hw[ppu_sys0_id] = MOD_PD_STATE_OFF =>
                                  ctx_state
                                    = MOD_SYSTEM_POWER_POWER_STATE_SLEEP0)))

\* SYS1 off with SYS0 on: OFF, and SYS0 was not read
C16_Witness ==
    /\ entry.fn = "start" /\ ret = FWK_SUCCESS
    /\ RailAOnRailBOff
    /\ Len(ops) = 1
    /\ ctx_state = MOD_PD_STATE_OFF

\* SYS1 on with SYS0 off: SLEEP0
C16_WitnessSleep0 ==
    /\ entry.fn = "start" /\ ret = FWK_SUCCESS
    /\ hw[ppu_sys1_id] = MOD_PD_STATE_ON
    /\ hw[ppu_sys0_id] = MOD_PD_STATE_OFF
    /\ ctx_state = MOD_SYSTEM_POWER_POWER_STATE_SLEEP0

SupportedStates ==
    {MOD_PD_STATE_ON, MOD_SYSTEM_POWER_POWER_STATE_SLEEP0, MOD_PD_STATE_OFF}

UnsupportedSetState(e) ==
    /\ e.fn = "set_state"
    /\ fwk_module_check_call(e.id) = FWK_SUCCESS
    /\ e.arg \notin SupportedStates

C17_State ==
    (UnsupportedSetState(entry) \/ entry.fn = "reset") =>
        /\ ret = FWK_E_SUPPORT
        /\ ops = <<>>
        /\ pc = "idle"

C17_Step ==
    (entry' # entry /\ (UnsupportedSetState(entry') \/ entry'.fn = "reset"))
        => UNCHANGED ModuleState

\* C17: an authorized set_state for a state other than ON, SLEEP0 and OFF
\* returns FWK_E_SUPPORT, issues no call and changes no state; reset does
\* the same for every caller and in every state.
C17_Unsupported == []C17_State /\ [][C17_Step]_vars

\* an unsupported request made while the interrupt is armed
C17_Witness ==
    /\ UnsupportedSetState(entry)
    /\ ret = FWK_E_SUPPORT
    /\ irq_enabled
    /\ ctx_state = MOD_SYSTEM_POWER_POWER_STATE_SLEEP0

\* reset asked by a caller that is not allowed to call
C17_WitnessReset ==
    /\ entry.fn = "reset"
    /\ fwk_module_check_call(entry.id) # FWK_SUCCESS
    /\ ret = FWK_E_SUPPORT
    /\ irq_enabled

\* the calls of log made to extended PPUs, in the order they were made
ExtPpuCalls(log) == SelectSeq(log, LAMBDA o : o.id \in ExtPpuIds)

\* the state ext_ppus_set_state is called with by the running sequence
ExtPpusTarget ==
    IF Target = MOD_PD_STATE_ON THEN MOD_PD_STATE_ON ELSE MOD_PD_STATE_OFF

InExtPpusLoop == pc \in {"on_ext_ppus", "sleep0_ext_ppus", "off_ext_ppus"}

\* C18: each run of ext_ppus_set_state calls set_state with the target
\* state on every configured extended PPU once, in configuration order,
\* whatever the drivers return; a failing unit neither stops the loop nor
\* changes what set_state returns.
C18_ExtPpusAllVisited ==
    (InSequence /\ Target \in SupportedStates) =>
        /\ IsPrefix(Requests(ExtPpuCalls(ops)), ExtPpusAll(ExtPpusTarget))
        /\ (InExtPpusLoop => Len(ExtPpuCalls(ops)) = i)
        /\ (Done =>
               Requests(ExtPpuCalls(ops)) = ExtPpusAll(ExtPpusTarget))
        /\ (Done /\ entry.fn = "set_state" => ret = FWK_SUCCESS)

\* the first unit's driver failed, the others were still called
C18_Witness ==
    /\ entry.fn = "set_state" /\ Authorized /\ Done
    /\ entry.arg = MOD_PD_STATE_ON
    /\ Len(ExtPpuCalls(ops)) = ext_ppus_count
    /\ ExtPpuCalls(ops)[1].res # FWK_SUCCESS
    /\ ret = FWK_SUCCESS
    /\ hw[ext_ppus(0)] = MOD_PD_STATE_OFF
    /\ hw[ext_ppus(ext_ppus_count - 1)] = MOD_PD_STATE_ON

\* what the interrupted entry point works on and goes on from
EntryPointState ==
    <<phase, pc, entry, i, ops, ret, out, sys0_state, sys1_state>>

C19_Step ==
    WakeupHandlerStep =>
        /\ UNCHANGED <<ctx_state, mod_pd_system_id, hw, irq_enabled,
                       irq_pending>>
        /\ UNCHANGED EntryPointState

\* the row of the transition table for the requested state
SequenceOf(state) ==
    CASE state = MOD_PD_STATE_ON -> OnSequence
      [] state = MOD_SYSTEM_POWER_POWER_STATE_SLEEP0 -> Sleep0Sequence
      [] OTHER -> OffSequence

C19_State ==
    (preempted /\ Done /\ entry.fn = "set_state" /\ Authorized
        /\ Target \in SupportedStates) =>
        /\ Requests(ops) = SequenceOf(Target)
        /\ ret = FWK_SUCCESS

\* C19: a run of the wakeup handler, also between two steps of an entry
\* point, leaves the cached state, mod_pd_system_id, the PPUs, the interrupt
\* enable and pending bits and the position and data of the interrupted
\* entry point unchanged, so that entry point issues the calls and returns
\* the status it would have without the interrupt.
C19_WakeupHandlerFrame == []C19_State /\ [][C19_Step]_vars

\* the handler ran inside an entry point, and a SLEEP0 sequence completed
C19_Witness ==
    /\ preempted
    /\ Len(async_reqs) > 0
    /\ entry.fn = "set_state" /\ Authorized /\ Done
    /\ entry.arg = MOD_SYSTEM_POWER_POWER_STATE_SLEEP0
    /\ Requests(ops) = Sleep0Sequence

\* every driver call of the running / last entry point was applied
AllCallsSucceeded == \A k \in 1 .. Len(ops) : ops[k].res = FWK_SUCCESS

\* the PPU states and interrupt enable bit each supported request leaves
ConfigurationOf(state) ==
    CASE state = MOD_PD_STATE_ON ->
            <<[id \in PpuIds |-> MOD_PD_STATE_ON], FALSE>>
      [] state = MOD_SYSTEM_POWER_POWER_STATE_SLEEP0 ->
            <<[id \in PpuIds |->
                  IF id = ppu_sys1_id THEN MOD_PD_STATE_ON
                  ELSE MOD_PD_STATE_OFF], TRUE>>
      [] OTHER ->
            <<[id \in PpuIds |-> MOD_PD_STATE_OFF], FALSE>>

\* C20: when every driver applies what it is asked, a completed authorized
\* set_state leaves a configuration fixed by the requested state alone: ON
\* leaves both rails and all extended PPUs on and the interrupt disabled,
\* SLEEP0 leaves SYS0 and the extended PPUs off, SYS1 on and the interrupt
\* enabled, OFF leaves everything off and the interrupt disabled; the same
\* request made again therefore leaves the same configuration.
C20_ConfigurationByTarget ==
    (entry.fn = "set_state" /\ Authorized /\ Done
        /\ Target \in SupportedStates /\ AllCallsSucceeded) =>
        <<hw, irq_enabled>> = ConfigurationOf(Target)

\* SLEEP0 completed with every driver call applied
C20_Witness ==
    /\ entry.fn = "set_state" /\ Authorized /\ Done
    /\ entry.arg = MOD_SYSTEM_POWER_POWER_STATE_SLEEP0
    /\ AllCallsSucceeded
    /\ ~rails_ok
    /\ hw[ppu_sys1_id] = MOD_PD_STATE_ON
    /\ hw[ext_ppus(0)] = MOD_PD_STATE_OFF

====
